---- MODULE Spec2Model ----
(***************************************************************************)
(* A model of nlp_help.py: the LsaPlotting class, eval_clusters,           *)
(* make_kmeans_clusters and fit_and_predict.  The four workflows share no  *)
(* state, so each has its own specification over its own variables; the    *)
(* variables of the other workflows stay at their initial values.          *)
(***************************************************************************)
EXTENDS Integers, Sequences, FiniteSets, TLC

\* ---------------------------------------------------------------- bounds

\* Rows per feature table given to eval_clusters.
MaxRows == 2
\* Largest n_clusters of the fitted model given to eval_clusters.
MaxClusters == 2
\* Rows of the holdout table.
MaxHoldoutRows == 1
\* Calls of eval_clusters made in a row on the same three tables.
MaxCalls == 2

\* ----------------------------------------------------------------- state

\* eval_clusters: its four arguments, its position, the calls made so far,
\* the loop index, what the current call printed (the two aggregates, the
\* latest cluster report), the tables as first given, and the label arrays
\* each completed prediction returned.
VARIABLES model, X_train, X_eval, X_holdout, pcEval, calls, i,
          aggregates, report, orig, assigned

evalVars == <<model, X_train, X_eval, X_holdout, pcEval, calls, i,
              aggregates, report, orig, assigned>>

\* make_kmeans_clusters: its arguments, its position, its three lists, the
\* loop position, the models printed so far and the record of the latest
\* iteration of the second loop.
VARIABLES train_data, start, stop, step, pcSweep, models, names, silhouettes,
          idx, printedModels, last

sweepVars == <<train_data, start, stop, step, pcSweep, models, names,
               silhouettes, idx, printedModels, last>>

\* fit_and_predict: the lengths of its four data arguments, its position and
\* the library calls and prints made so far.
VARIABLES lens, pcGrid, events

gridVars == <<lens, pcGrid, events>>

\* LsaPlotting: the constructor's arguments (with the current color cycle),
\* the object the caller holds, its position and the latest figure.
VARIABLES args, plotter, pcPlot, figure

plotVars == <<args, plotter, pcPlot, figure>>

vars == <<evalVars, sweepVars, gridVars, plotVars>>

\* ------------------------------------------------------- general helpers

Min(a, b) == IF a < b THEN a ELSE b

Range(s) == {s[k] : k \in 1..Len(s)}

\* All sequences over S of length lo..hi.
SeqsOf(S, lo, hi) == UNION {[1..n -> S] : n \in lo..hi}

\* All orderings of the finite set S, as sequences without repetition.
Perms(S) == {p \in [1..Cardinality(S) -> S] : Range(p) = S}

\* Python's s[a:b] for 0 <= a <= b (0-based, b exclusive, both clipped to
\* the length).
Slice(s, a, b) ==
    LET lo == Min(a, Len(s))
        hi == Min(b, Len(s))
    IN  [k \in 1..(hi - lo) |-> s[lo + k]]

RECURSIVE SumSeq(_)
SumSeq(s) == IF s = <<>> THEN 0 ELSE s[1] + SumSeq(Tail(s))

\* The position of name c in the column list cols (0 when absent).
ColIndex(cols, c) ==
    IF c \in Range(cols) THEN CHOOSE k \in 1..Len(cols) : cols[k] = c ELSE 0

\* ============================================================ eval_clusters

\* The numbers of feature columns of the schemas the three tables share:
\* one below the width of the top window, one above it.
SchemaWidths == {2, 11}

\* [f'comp_{i}' for i in range(n)] for the widths the model uses.
CompNames(n) ==
    SubSeq(<<"comp_0", "comp_1", "comp_2", "comp_3", "comp_4", "comp_5",
             "comp_6", "comp_7", "comp_8", "comp_9", "comp_10">>, 1, n)

\* The feature rows the tables of a schema are drawn from: in the narrow
\* schema a row with a value above every cluster index and one with a value
\* tied with cluster index 0, both with a negative value; in the wide schema
\* a row of distinct positive values and a row of distinct negative ones
\* (both rising with the column, so that no two feature means tie).
RowPool(w) ==
    IF w = 2 THEN {<<2, -1>>, <<0, -2>>}
    ELSE {[k \in 1..w |-> 2 * k], [k \in 1..w |-> k - (w + 1)]}

\* A table: its column names and its rows, each row aligned to the columns.
Tables(w) ==
    {[cols |-> CompNames(w), rows |-> r] : r \in SeqsOf(RowPool(w), 1, MaxRows)}

\* A fitted deterministic KMeans model: predict maps a feature row to one of
\* n_clusters indices, and accepts only tables of n_features columns.
Models(w) ==
    UNION {{[n_clusters |-> k, n_features |-> w, assign |-> a] :
              a \in [RowPool(w) -> 0..(k - 1)]} : k \in 1..MaxClusters}

NoReport == [i |-> -1]

\* model.predict(X): raises unless X has the fitted number of columns.
PredictRaises(m, X) == Len(X.cols) # m.n_features

predict(m, X) == [k \in 1..Len(X.rows) |-> m.assign[X.rows[k]]]

\* X[name] = vals : replaces the column when it exists, appends it otherwise.
SetColumn(X, name, vals) ==
    IF name \in Range(X.cols)
    THEN [cols |-> X.cols,
          rows |-> [k \in 1..Len(X.rows) |->
                      [X.rows[k] EXCEPT ![ColIndex(X.cols, name)] = vals[k]]]]
    ELSE [cols |-> Append(X.cols, name),
          rows |-> [k \in 1..Len(X.rows) |-> Append(X.rows[k], vals[k])]]

\* X[X.clusters == c] : the rows of cluster c, in order.
SelectCluster(X, c) ==
    [cols |-> X.cols,
     rows |-> SelectSeq(X.rows, LAMBDA r : r[ColIndex(X.cols, "clusters")] = c)]

\* A column's mean as <<sum, count>>; a count of 0 is NaN.
ColumnMean(X, c) ==
    <<SumSeq([k \in 1..Len(X.rows) |-> X.rows[k][ColIndex(X.cols, c)]]),
      Len(X.rows)>>

\* a > b and a = b for two means over rows of non-empty selections.
MeanGt(a, b) == a[1] * b[2] > b[1] * a[2]
MeanEq(a, b) == a[1] * b[2] = b[1] * a[2]

\* The orderings of the column positions that put, at every rank from r on,
\* a position not in used: position k has above[k] means over its own and
\* tied[k] means equal to it (its own included), and so may stand at ranks
\* above[k] + 1 .. above[k] + tied[k].
RECURSIVE OrdersFrom(_, _, _, _, _)
OrdersFrom(r, used, n, above, tied) ==
    IF r > n THEN {<<>>}
    ELSE UNION {{<<k>> \o t : t \in OrdersFrom(r + 1, used \cup {k}, n, above, tied)} :
                  k \in {j \in (1..n) \ used :
                            above[j] < r /\ r <= above[j] + tied[j]}}

\* X.mean().sort_values(ascending=False).index : every ordering of the
\* columns by descending mean (tied means in any order); an empty selection
\* has only NaN means, which keep the columns' own order.
SortedDescending(X) ==
    IF Len(X.rows) = 0 THEN {X.cols}
    ELSE LET n == Len(X.cols)
             mean == <<>> \o [k \in 1..n |-> ColumnMean(X, X.cols[k])]
             above == <<>> \o [k \in 1..n |->
                         Cardinality({j \in 1..n : MeanGt(mean[j], mean[k])})]
             tied == <<>> \o [k \in 1..n |->
                         Cardinality({j \in 1..n : MeanEq(mean[j], mean[k])})]
         IN  {[r \in 1..n |-> X.cols[p[r]]] : p \in OrdersFrom(1, {}, n, above, tied)}

\* X.groupby(['clusters']).mean() : per cluster present, each other column's mean.
GroupMeans(X) ==
    LET at == ColIndex(X.cols, "clusters")
        groups == {X.rows[k][at] : k \in 1..Len(X.rows)}
    IN  [g \in groups |->
           [c \in Range(X.cols) \ {"clusters"} |->
               ColumnMean(SelectCluster(X, g), c)]]

\* The two windows given to the opposite branches.
TopWindowSwapped(c) == IF c < 1 THEN <<1, 11>> ELSE <<0, 10>>
\* The start and stop of the top window for cluster index c.
TopWindow(c) == IF c < 1 THEN <<0, 10>> ELSE <<1, 11>>

InitEval ==
    /\ \E w \in SchemaWidths :
          /\ model \in Models(w)
          /\ X_train \in Tables(w)
          /\ X_eval \in Tables(w)
          /\ X_holdout \in {t \in Tables(w) : Len(t.rows) <= MaxHoldoutRows}
    /\ orig = [train |-> X_train, eval |-> X_eval, holdout |-> X_holdout]
    /\ pcEval = "idle"
    /\ calls = 0
    /\ i = 0
    /\ aggregates = <<>>
    /\ report = NoReport
    /\ assigned = <<>>

\* The column assignments with the holdout table left as it was.
AssignDropHoldout(Xt, Xe, Xh, lt, le, lh) ==
    <<SetColumn(Xt, "clusters", lt), SetColumn(Xe, "clusters", le), Xh>>
\* The tables after the three column assignments.
AssignClusters(Xt, Xe, Xh, lt, le, lh) ==
    <<SetColumn(Xt, "clusters", lt), SetColumn(Xe, "clusters", le),
      SetColumn(Xh, "clusters", lh)>>

\* A call of eval_clusters on the three tables as they are now: one of the
\* three predictions raises and nothing is assigned.
EvalPredictRaise ==
    /\ UNCHANGED <<sweepVars, gridVars, plotVars>>
    /\ pcEval \in {"idle", "returned", "raised"}
    /\ calls < MaxCalls
    /\ \/ PredictRaises(model, X_train)
       \/ PredictRaises(model, X_eval)
       \/ PredictRaises(model, X_holdout)
    /\ calls' = calls + 1
    /\ pcEval' = "raised"
    /\ aggregates' = <<>>
    /\ report' = NoReport
    /\ UNCHANGED <<model, X_train, X_eval, X_holdout, i, orig, assigned>>

\* The call predicts the three label arrays and assigns the three columns.
EvalPredictAssign ==
    /\ UNCHANGED <<sweepVars, gridVars, plotVars>>
    /\ pcEval \in {"idle", "returned", "raised"}
    /\ calls < MaxCalls
    /\ ~PredictRaises(model, X_train)
    /\ ~PredictRaises(model, X_eval)
    /\ ~PredictRaises(model, X_holdout)
    /\ LET train_labels == predict(model, X_train)
           eval_labels == predict(model, X_eval)
           holdout_labels == predict(model, X_holdout)
           out == AssignClusters(X_train, X_eval, X_holdout,
                                 train_labels, eval_labels, holdout_labels)
       IN  /\ X_train' = out[1]
           /\ X_eval' = out[2]
           /\ X_holdout' = out[3]
           /\ assigned' = Append(assigned, [train |-> train_labels,
                                            eval |-> eval_labels,
                                            holdout |-> holdout_labels])
    /\ calls' = calls + 1
    /\ pcEval' = "aggregate"
    /\ aggregates' = <<>>
    /\ report' = NoReport
    /\ UNCHANGED <<model, i, orig>>

\* The two aggregate prints.
EvalPrintAggregates ==
    /\ UNCHANGED <<sweepVars, gridVars, plotVars>>
    /\ pcEval = "aggregate"
    /\ aggregates' = <<[of |-> "train", means |-> GroupMeans(X_train)],
                       [of |-> "eval", means |-> GroupMeans(X_eval)]>>
    /\ i' = 0
    /\ pcEval' = "loop"
    /\ UNCHANGED <<model, X_train, X_eval, X_holdout, calls, report, orig, assigned>>

\* One iteration of the loop over the cluster indices.
EvalLoopStep ==
    /\ UNCHANGED <<sweepVars, gridVars, plotVars>>
    /\ pcEval = "loop"
    /\ i < model.n_clusters
    /\ LET data_train == SelectCluster(X_train, i)
           data_eval == SelectCluster(X_eval, i)
           window == TopWindow(i)
       IN  \E st \in SortedDescending(data_train), se \in SortedDescending(data_eval) :
              LET train == Slice(st, window[1], window[2])
                  evl == Slice(se, window[1], window[2])
              IN  report' = [i |-> i, sortedTrain |-> st, sortedEval |-> se,
                             train |-> train, evl |-> evl,
                             overlap |-> Range(train) \cap Range(evl)]
    /\ i' = i + 1
    /\ UNCHANGED <<model, X_train, X_eval, X_holdout, pcEval, calls, aggregates,
                   orig, assigned>>

EvalReturn ==
    /\ UNCHANGED <<sweepVars, gridVars, plotVars>>
    /\ pcEval = "loop"
    /\ i >= model.n_clusters
    /\ pcEval' = "returned"
    /\ UNCHANGED <<model, X_train, X_eval, X_holdout, calls, i, aggregates,
                   report, orig, assigned>>

NextEval ==
    \/ EvalPredictRaise
    \/ EvalPredictAssign
    \/ EvalPrintAggregates
    \/ EvalLoopStep
    \/ EvalReturn

\* ===================================================== make_kmeans_clusters

\* Largest start and stop - 1 a caller passes, besides the defaults.
MaxCount == 3
\* Rows of the training table.
MaxTrainRows == 4

\* The defaults of start, stop and step.
DefaultStart == 2
DefaultStop == 11
DefaultStep == 1

\* Column names of a training table given as a DataFrame.
FrameCols == <<"alpha", "beta">>

\* The silhouette scores the library can return, a score being in [-1, 1].
SilhouetteVals == {-1, 0, 1}

\* The (start, stop, step) triples a caller passes.
SweepArgs ==
    ((1..MaxCount) \X (0..(MaxCount + 1)) \X {-1, 0, 1, 2})
        \cup {<<DefaultStart, DefaultStop, DefaultStep>>}

\* list(range(a, b, s)) for s # 0.
RECURSIVE RangeSeq(_, _, _)
RangeSeq(a, b, s) ==
    IF (s > 0 /\ a < b) \/ (s < 0 /\ a > b)
    THEN <<a>> \o RangeSeq(a + s, b, s)
    ELSE <<>>

\* The two variants appended in the opposite order.
VariantsMiniBatchFirst(c) ==
    <<[name |-> "MiniBatch", n_clusters |-> c], [name |-> "KMeans", n_clusters |-> c]>>
\* The two model variants built for one candidate count, in list order.
Variants(c) ==
    <<[name |-> "KMeans", n_clusters |-> c], [name |-> "MiniBatch", n_clusters |-> c]>>

\* model.fit(train_data) raises unless 1 <= n_clusters <= number of rows.
FitRaises(c, nrows) == c < 1 \/ c > nrows

\* len(set(model.labels_)) after a fit: labels are cluster indices of rows.
DistinctLabels(c, nrows) == 1..Min(c, nrows)

\* silhouette_score raises unless 2 <= number of labels <= number of rows - 1.
SilhouetteRaises(d, nrows) == d < 2 \/ d > nrows - 1

\* A scoring guard that lets a single label through.
ShouldScoreAlways(d) == d >= 1
\* The guard of the scoring branch: len(set(labels)) > 1.
ShouldScore(d) == d > 1

\* A print guard that lets a score of zero through.
PromisingOrZero(silhouette) == silhouette >= 0
\* The guard of the two score prints: silhouette > 0.
Promising(silhouette) == silhouette > 0

NoModel == [name |-> "none"]

InitSweep ==
    /\ \E n \in 1..MaxTrainRows :
          train_data \in {[type |-> "ndarray", nrows |-> n, ncols |-> Len(FrameCols),
                           columns |-> <<>>],
                          [type |-> "DataFrame", nrows |-> n, ncols |-> Len(FrameCols),
                           columns |-> FrameCols]}
    /\ \E a \in SweepArgs : start = a[1] /\ stop = a[2] /\ step = a[3]
    /\ pcSweep = "convert"
    /\ models = <<>>
    /\ names = <<>>
    /\ silhouettes = <<>>
    /\ idx = 0
    /\ printedModels = <<>>
    /\ last = NoModel

\* The three empty lists and the conversion of an ndarray to a DataFrame.
SweepConvert ==
    /\ UNCHANGED <<evalVars, gridVars, plotVars>>
    /\ pcSweep = "convert"
    /\ train_data' =
          IF train_data.type = "ndarray"
          THEN [train_data EXCEPT !.type = "DataFrame",
                                  !.columns = CompNames(train_data.ncols)]
          ELSE train_data
    /\ pcSweep' = "build"
    /\ UNCHANGED <<start, stop, step, models, names, silhouettes, idx,
                   printedModels, last>>

\* range(start, stop, step) raises for a step of 0, before any model is built.
SweepRangeRaise ==
    /\ UNCHANGED <<evalVars, gridVars, plotVars>>
    /\ pcSweep = "build"
    /\ step = 0
    /\ pcSweep' = "raised"
    /\ UNCHANGED <<train_data, start, stop, step, models, names, silhouettes,
                   idx, printedModels, last>>

\* One iteration of the first loop: the two variants of the next count.
SweepBuildStep ==
    /\ UNCHANGED <<evalVars, gridVars, plotVars>>
    /\ pcSweep = "build"
    /\ step # 0
    /\ idx < Len(RangeSeq(start, stop, step))
    /\ models' = models \o Variants(RangeSeq(start, stop, step)[idx + 1])
    /\ idx' = idx + 1
    /\ UNCHANGED <<train_data, start, stop, step, pcSweep, names, silhouettes,
                   printedModels, last>>

\* The first loop ends; the second starts at the head of the list.
SweepBuildDone ==
    /\ UNCHANGED <<evalVars, gridVars, plotVars>>
    /\ pcSweep = "build"
    /\ step # 0
    /\ idx >= Len(RangeSeq(start, stop, step))
    /\ pcSweep' = "fit"
    /\ idx' = 1
    /\ UNCHANGED <<train_data, start, stop, step, models, names, silhouettes,
                   printedModels, last>>

\* An iteration of the second loop in which model.fit raises.
SweepFitRaise ==
    /\ UNCHANGED <<evalVars, gridVars, plotVars>>
    /\ pcSweep = "fit"
    /\ idx <= Len(models)
    /\ FitRaises(models[idx].n_clusters, train_data.nrows)
    /\ names' = Append(names, models[idx].name)
    /\ last' = [name |-> models[idx].name, n_clusters |-> models[idx].n_clusters,
                fitted |-> FALSE, params |-> FALSE, distinct |-> 0,
                refit |-> FALSE, scored |-> FALSE, silhouette |-> 0,
                scoreLine |-> FALSE, crosstab |-> FALSE]
    /\ pcSweep' = "raised"
    /\ UNCHANGED <<train_data, start, stop, step, models, silhouettes, idx,
                   printedModels>>

\* An iteration that fits, prints the model and skips the scoring branch.
SweepFitSkip ==
    /\ UNCHANGED <<evalVars, gridVars, plotVars>>
    /\ pcSweep = "fit"
    /\ idx <= Len(models)
    /\ ~FitRaises(models[idx].n_clusters, train_data.nrows)
    /\ \E d \in DistinctLabels(models[idx].n_clusters, train_data.nrows) :
          /\ ~ShouldScore(d)
          /\ last' = [name |-> models[idx].name,
                      n_clusters |-> models[idx].n_clusters,
                      fitted |-> TRUE, params |-> TRUE, distinct |-> d,
                      refit |-> FALSE, scored |-> FALSE, silhouette |-> 0,
                      scoreLine |-> FALSE, crosstab |-> FALSE]
    /\ names' = Append(names, models[idx].name)
    /\ printedModels' = Append(printedModels, models[idx])
    /\ idx' = idx + 1
    /\ UNCHANGED <<train_data, start, stop, step, pcSweep, models, silhouettes>>

\* An iteration that fits, prints the model, fits again and has
\* silhouette_score raise.
SweepScoreRaise ==
    /\ UNCHANGED <<evalVars, gridVars, plotVars>>
    /\ pcSweep = "fit"
    /\ idx <= Len(models)
    /\ ~FitRaises(models[idx].n_clusters, train_data.nrows)
    /\ \E d \in DistinctLabels(models[idx].n_clusters, train_data.nrows) :
          /\ ShouldScore(d)
          /\ SilhouetteRaises(d, train_data.nrows)
          /\ last' = [name |-> models[idx].name,
                      n_clusters |-> models[idx].n_clusters,
                      fitted |-> TRUE, params |-> TRUE, distinct |-> d,
                      refit |-> TRUE, scored |-> FALSE, silhouette |-> 0,
                      scoreLine |-> FALSE, crosstab |-> FALSE]
    /\ names' = Append(names, models[idx].name)
    /\ printedModels' = Append(printedModels, models[idx])
    /\ pcSweep' = "raised"
    /\ UNCHANGED <<train_data, start, stop, step, models, silhouettes, idx>>

\* An iteration that fits, prints the model, fits again, scores, and prints
\* the score line and the contingency table when the score passes the bar.
SweepScore ==
    /\ UNCHANGED <<evalVars, gridVars, plotVars>>
    /\ pcSweep = "fit"
    /\ idx <= Len(models)
    /\ ~FitRaises(models[idx].n_clusters, train_data.nrows)
    /\ \E d \in DistinctLabels(models[idx].n_clusters, train_data.nrows),
          silhouette \in SilhouetteVals :
          /\ ShouldScore(d)
          /\ ~SilhouetteRaises(d, train_data.nrows)
          /\ silhouettes' = Append(silhouettes, silhouette)
          /\ last' = [name |-> models[idx].name,
                      n_clusters |-> models[idx].n_clusters,
                      fitted |-> TRUE, params |-> TRUE, distinct |-> d,
                      refit |-> TRUE, scored |-> TRUE, silhouette |-> silhouette,
                      scoreLine |-> Promising(silhouette),
                      crosstab |-> Promising(silhouette)]
    /\ names' = Append(names, models[idx].name)
    /\ printedModels' = Append(printedModels, models[idx])
    /\ idx' = idx + 1
    /\ UNCHANGED <<train_data, start, stop, step, pcSweep, models>>

\* The second loop ends and the function returns None.
SweepReturn ==
    /\ UNCHANGED <<evalVars, gridVars, plotVars>>
    /\ pcSweep = "fit"
    /\ idx > Len(models)
    /\ pcSweep' = "done"
    /\ UNCHANGED <<train_data, start, stop, step, models, names, silhouettes,
                   idx, printedModels, last>>

NextSweep ==
    \/ SweepConvert
    \/ SweepRangeRaise
    \/ SweepBuildStep
    \/ SweepBuildDone
    \/ SweepFitRaise
    \/ SweepFitSkip
    \/ SweepScoreRaise
    \/ SweepScore
    \/ SweepReturn


\* ========================================================== fit_and_predict

\* Largest length of a data argument of fit_and_predict.
MaxLen == 2

\* The first assertion at the head of the function.
TrainLengthsMatch(l) == l.X_train = l.y_train
\* A second assertion that repeats the first pair.
EvalCheckOnTrainPair(l) == l.X_train = l.y_train
\* The second assertion.
EvalLengthsMatch(l) == l.X_eval = l.y_eval

InitGrid ==
    /\ lens \in [X_train : 0..MaxLen, y_train : 0..MaxLen,
                 X_eval : 0..MaxLen, y_eval : 0..MaxLen]
    /\ pcGrid = "assert_train"
    /\ events = <<>>

\* assert len(X_train) == len(y_train)
GridAssertTrain ==
    /\ UNCHANGED <<evalVars, sweepVars, plotVars>>
    /\ pcGrid = "assert_train"
    /\ pcGrid' = IF TrainLengthsMatch(lens) THEN "assert_eval" ELSE "raised"
    /\ UNCHANGED <<lens, events>>

\* assert len(X_eval) == len(y_eval)
GridAssertEval ==
    /\ UNCHANGED <<evalVars, sweepVars, plotVars>>
    /\ pcGrid = "assert_eval"
    /\ pcGrid' = IF EvalLengthsMatch(lens) THEN "setup" ELSE "raised"
    /\ UNCHANGED <<lens, events>>

\* The splitter, the pipeline and the grid search are constructed.
GridSetup ==
    /\ UNCHANGED <<evalVars, sweepVars, plotVars>>
    /\ pcGrid = "setup"
    /\ events' = events \o <<"StratifiedKFold", "Pipeline", "GridSearchCV">>
    /\ pcGrid' = "fit"
    /\ UNCHANGED lens

\* clf.fit(X_train, y_train) returns.
GridFit ==
    /\ UNCHANGED <<evalVars, sweepVars, plotVars>>
    /\ pcGrid = "fit"
    /\ events' = Append(events, "fit")
    /\ pcGrid' = "scores"
    /\ UNCHANGED lens

\* clf.fit raises (a class smaller than the fold count, a malformed grid):
\* the error propagates.
GridFitRaise ==
    /\ UNCHANGED <<evalVars, sweepVars, plotVars>>
    /\ pcGrid = "fit"
    /\ events' = Append(events, "fit_raised")
    /\ pcGrid' = "raised"
    /\ UNCHANGED lens

\* The two prints of the cross-validation scores.
GridPrintScores ==
    /\ UNCHANGED <<evalVars, sweepVars, plotVars>>
    /\ pcGrid = "scores"
    /\ events' = events \o <<"print_mean", "print_std">>
    /\ pcGrid' = "predict"
    /\ UNCHANGED lens

\* y_pred = clf.predict(X_eval)
GridPredict ==
    /\ UNCHANGED <<evalVars, sweepVars, plotVars>>
    /\ pcGrid = "predict"
    /\ events' = Append(events, "predict")
    /\ pcGrid' = "report"
    /\ UNCHANGED lens

\* The classification report and the confusion matrix are printed.
GridReport ==
    /\ UNCHANGED <<evalVars, sweepVars, plotVars>>
    /\ pcGrid = "report"
    /\ events' = events \o <<"print_report", "print_confusion">>
    /\ pcGrid' = "done"
    /\ UNCHANGED lens

NextGrid ==
    \/ GridAssertTrain
    \/ GridAssertEval
    \/ GridSetup
    \/ GridFit
    \/ GridFitRaise
    \/ GridPrintScores
    \/ GridPredict
    \/ GridReport

\* ============================================================== LsaPlotting

\* Largest length of a projection matrix or label series.
MaxSeriesLen == 2
\* Largest number of colors in the current color cycle.
MaxColors == 2

\* The label values of the series.
Labels == {"adams", "lincoln"}

\* Numbers of components of a projection.
Widths == {2, 3}

NoPlotter == [made |-> FALSE]
NoFigure == [op |-> "none"]

\* {p: c for p, c in zip(categories, colors)} : zip stops at the shorter one.
ZipPairs(categories, colors) ==
    LET n == Min(Len(categories), Len(colors))
    IN  [p \in {categories[k] : k \in 1..n} |->
            colors[CHOOSE k \in 1..n : categories[k] = p]]

\* The number of elements of the series y equal to a key of pairs.
RECURSIVE CountIn(_, _)
CountIn(y, keys) ==
    IF y = <<>> THEN 0
    ELSE (IF y[1] \in keys THEN 1 ELSE 0) + CountIn(Tail(y), keys)

\* The first assertion of the constructor.
PlotTrainLengthsMatch(a) == a.X_train_lsa.n = Len(a.y_train)
\* A second assertion that repeats the first pair.
PlotEvalCheckOnTrainPair(a) == a.X_train_lsa.n = Len(a.y_train)
\* The second assertion of the constructor.
PlotEvalLengthsMatch(a) == a.X_eval_lsa.n = Len(a.y_eval)

InitPlot ==
    /\ \E nt \in 0..MaxSeriesLen, ne \in 0..MaxSeriesLen, w \in Widths,
          yt \in SeqsOf(Labels, 0, MaxSeriesLen),
          ye \in SeqsOf(Labels, 0, MaxSeriesLen), nc \in 1..MaxColors :
          args = [X_train_lsa |-> [n |-> nt, width |-> w], y_train |-> yt,
                  X_eval_lsa |-> [n |-> ne, width |-> w], y_eval |-> ye,
                  n_colors |-> nc]
    /\ plotter = NoPlotter
    /\ pcPlot = "new"
    /\ figure = NoFigure

\* LsaPlotting(...) returns the object: both assertions pass; categories is
\* the set of training labels in the iteration order the set happens to
\* have, colors the current color cycle.
PlotConstruct ==
    /\ UNCHANGED <<evalVars, sweepVars, gridVars>>
    /\ pcPlot = "new"
    /\ PlotTrainLengthsMatch(args)
    /\ PlotEvalLengthsMatch(args)
    /\ \E order \in Perms(Range(args.y_train)) :
          plotter' = [made |-> TRUE,
                      X_train_lsa |-> args.X_train_lsa, y_train |-> args.y_train,
                      X_eval_lsa |-> args.X_eval_lsa, y_eval |-> args.y_eval,
                      categories |-> order,
                      colors |-> [k \in 1..args.n_colors |-> k]]
    /\ pcPlot' = "ready"
    /\ UNCHANGED <<args, figure>>

\* LsaPlotting(...) raises at one of its assertions: no object is returned.
PlotConstructRaise ==
    /\ UNCHANGED <<evalVars, sweepVars, gridVars>>
    /\ pcPlot = "new"
    /\ ~(PlotTrainLengthsMatch(args) /\ PlotEvalLengthsMatch(args))
    /\ pcPlot' = "raised"
    /\ UNCHANGED <<args, plotter, figure>>

\* compare_plot_2d: two scatter panels, every point drawn, hue by label.
PlotCompare2d ==
    /\ UNCHANGED <<evalVars, sweepVars, gridVars>>
    /\ pcPlot = "ready"
    /\ figure' = [op |-> "compare_plot_2d",
                  pairs |-> ZipPairs(plotter.categories, plotter.colors),
                  train |-> <<plotter.X_train_lsa.n, Len(plotter.y_train)>>,
                  eval |-> <<plotter.X_eval_lsa.n, Len(plotter.y_eval)>>,
                  trainPoints |-> plotter.X_train_lsa.n,
                  evalPoints |-> plotter.X_eval_lsa.n]
    /\ UNCHANGED <<args, plotter, pcPlot>>

\* compare_plot_3d on projections of three components (or with no key of
\* pairs to iterate over): one scatter series per key of pairs, in each panel.
PlotCompare3d ==
    /\ UNCHANGED <<evalVars, sweepVars, gridVars>>
    /\ pcPlot = "ready"
    /\ \/ plotter.X_train_lsa.width >= 3
       \/ DOMAIN ZipPairs(plotter.categories, plotter.colors) = {}
    /\ LET pairs == ZipPairs(plotter.categories, plotter.colors)
       IN  figure' = [op |-> "compare_plot_3d",
                      pairs |-> pairs,
                      train |-> <<plotter.X_train_lsa.n, Len(plotter.y_train)>>,
                      eval |-> <<plotter.X_eval_lsa.n, Len(plotter.y_eval)>>,
                      trainPoints |-> CountIn(plotter.y_train, DOMAIN pairs),
                      evalPoints |-> CountIn(plotter.y_eval, DOMAIN pairs)]
    /\ UNCHANGED <<args, plotter, pcPlot>>

\* compare_plot_3d on projections of two components: the lookup of
\* column 2 raises once pairs has a key to iterate over.
PlotCompare3dRaise ==
    /\ UNCHANGED <<evalVars, sweepVars, gridVars>>
    /\ pcPlot = "ready"
    /\ plotter.X_train_lsa.width < 3
    /\ DOMAIN ZipPairs(plotter.categories, plotter.colors) # {}
    /\ figure' = [op |-> "compare_plot_3d_raised",
                  pairs |-> ZipPairs(plotter.categories, plotter.colors),
                  train |-> <<plotter.X_train_lsa.n, Len(plotter.y_train)>>,
                  eval |-> <<plotter.X_eval_lsa.n, Len(plotter.y_eval)>>]
    /\ UNCHANGED <<args, plotter, pcPlot>>

\* compare_plot_interactive(X_train, X_eval): the two text series are added
\* as columns, which raises unless each is as long as its projection.
PlotInteractive ==
    /\ UNCHANGED <<evalVars, sweepVars, gridVars>>
    /\ pcPlot = "ready"
    /\ \E lt \in 0..MaxSeriesLen, le \in 0..MaxSeriesLen :
          figure' =
             IF lt = plotter.X_train_lsa.n /\ le = plotter.X_eval_lsa.n
             THEN [op |-> "compare_plot_interactive",
                   train |-> <<plotter.X_train_lsa.n, Len(plotter.y_train)>>,
                   eval |-> <<plotter.X_eval_lsa.n, Len(plotter.y_eval)>>,
                   factors |-> Range(plotter.y_train)]
             ELSE [op |-> "compare_plot_interactive_raised",
                   train |-> <<plotter.X_train_lsa.n, Len(plotter.y_train)>>,
                   eval |-> <<plotter.X_eval_lsa.n, Len(plotter.y_eval)>>]
    /\ UNCHANGED <<args, plotter, pcPlot>>

NextPlot ==
    \/ PlotConstruct
    \/ PlotConstructRaise
    \/ PlotCompare2d
    \/ PlotCompare3d
    \/ PlotCompare3dRaise
    \/ PlotInteractive

\* ========================================================== specifications

\* A workflow that is not running: its variables hold no input and never change.
OffEval ==
    /\ model = "none" /\ X_train = "none" /\ X_eval = "none" /\ X_holdout = "none"
    /\ pcEval = "off" /\ calls = 0 /\ i = 0 /\ aggregates = <<>>
    /\ report = NoReport /\ orig = "none" /\ assigned = <<>>

OffSweep ==
    /\ train_data = "none" /\ start = 0 /\ stop = 0 /\ step = 0
    /\ pcSweep = "off" /\ models = <<>> /\ names = <<>> /\ silhouettes = <<>>
    /\ idx = 0 /\ printedModels = <<>> /\ last = NoModel

OffGrid == lens = "none" /\ pcGrid = "off" /\ events = <<>>

OffPlot == args = "none" /\ plotter = NoPlotter /\ pcPlot = "off" /\ figure = NoFigure

InitSpecEval == InitEval /\ OffSweep /\ OffGrid /\ OffPlot

InitSpecSweep == OffEval /\ InitSweep /\ OffGrid /\ OffPlot

InitSpecGrid == OffEval /\ OffSweep /\ InitGrid /\ OffPlot

InitSpecPlot == OffEval /\ OffSweep /\ OffGrid /\ InitPlot

SpecEval == InitSpecEval /\ [][NextEval]_vars

SpecSweep == InitSpecSweep /\ [][NextSweep]_vars

SpecGrid == InitSpecGrid /\ [][NextGrid]_vars

SpecPlot == InitSpecPlot /\ [][NextPlot]_vars

\* =================================================================== claims

\* ------------------------------------------------------------ eval_clusters

\* The ranks [a, b) of a sorted column list: the names at 0-based ranks
\* a, a + 1, ... below b, as far as the list goes.
IsRanks(window, sorted, a, b) ==
    /\ Len(window) = (IF Len(sorted) < b THEN Len(sorted) ELSE b)
                       - (IF Len(sorted) < a THEN Len(sorted) ELSE a)
    /\ \A k \in 1..Len(window) : window[k] = sorted[a + k]

\* C1, as amended: in every cluster report, the train and the eval window are
\* ranks [0,10) of the descending-sorted column means for cluster index 0 and
\* ranks [1,11) for every other cluster index.
TopWindowRanks ==
    report # NoReport =>
        LET a == IF report.i = 0 THEN 0 ELSE 1
            b == IF report.i = 0 THEN 10 ELSE 11
        IN  /\ IsRanks(report.train, report.sortedTrain, a, b)
            /\ IsRanks(report.evl, report.sortedEval, a, b)

\* C1, as claimed: ranks [1,11) for cluster index 0 and ranks [0,10) for
\* every other cluster index.
TopWindowRanksAsClaimed ==
    report # NoReport =>
        LET a == IF report.i = 0 THEN 1 ELSE 0
            b == IF report.i = 0 THEN 11 ELSE 10
        IN  /\ IsRanks(report.train, report.sortedTrain, a, b)
            /\ IsRanks(report.evl, report.sortedEval, a, b)

\* A report of a cluster other than 0 over the wide schema: twelve columns
\* are sorted, the top one is dropped and the last one is cut from the window.
TopWindowRanksWitness ==
    /\ report # NoReport
    /\ report.i = 1
    /\ Len(report.sortedTrain) = 12
    /\ Len(report.train) = 10
    /\ report.train[1] = report.sortedTrain[2]
    /\ Len(report.sortedEval) = 12
    /\ report.evl[10] = report.sortedEval[11]

\* C2: a second call in succession, on the tables as the first call left
\* them, succeeds like the first and assigns every row of every table the
\* same cluster index.
SecondCallSameLabels ==
    (calls = 2 /\ Len(assigned) >= 1 /\ pcEval \in {"returned", "raised"}) =>
        /\ pcEval = "returned"
        /\ Len(assigned) = 2
        /\ assigned[2] = assigned[1]

\* The labelled form of a table as first given: the same rows in the same
\* order with the same feature values, and one more column, 'clusters',
\* holding the model's cluster index of the row.
IsLabelled(X, X0) ==
    /\ X.cols = Append(X0.cols, "clusters")
    /\ Len(X.rows) = Len(X0.rows)
    /\ \A k \in 1..Len(X.rows) :
          /\ Len(X.rows[k]) = Len(X0.rows[k]) + 1
          /\ \A c \in 1..Len(X0.rows[k]) : X.rows[k][c] = X0.rows[k][c]
          /\ X.rows[k][Len(X.rows[k])] = model.assign[X0.rows[k]]
          /\ X.rows[k][Len(X.rows[k])] \in 0..(model.n_clusters - 1)

\* C7: once a call has assigned the columns, each of the three tables is the
\* table first given plus a 'clusters' column of predicted indices in
\* [0, n_clusters), and the aggregates printed are those of train and eval,
\* never of holdout.
TablesLabelledInPlace ==
    /\ Len(assigned) >= 1 =>
          /\ IsLabelled(X_train, orig.train)
          /\ IsLabelled(X_eval, orig.eval)
          /\ IsLabelled(X_holdout, orig.holdout)
    /\ Len(assigned) = 0 =>
          X_train = orig.train /\ X_eval = orig.eval /\ X_holdout = orig.holdout
    /\ \A k \in 1..Len(aggregates) : aggregates[k].of # "holdout"
    /\ (pcEval \in {"loop", "returned"}) =>
          /\ Len(aggregates) = 2
          /\ aggregates[1].of = "train"
          /\ aggregates[2].of = "eval"

\* The first call has returned: three labelled tables, two aggregates.
TablesLabelledWitness ==
    /\ pcEval = "returned"
    /\ calls = 1
    /\ Len(X_holdout.cols) = Len(orig.holdout.cols) + 1
    /\ Len(aggregates) = 2

\* C10: no cluster report's train or eval window contains the 'clusters'
\* column.
WindowExcludesClusters ==
    report # NoReport =>
        /\ "clusters" \notin Range(report.train)
        /\ "clusters" \notin Range(report.evl)

\* ----------------------------------------------------- make_kmeans_clusters

\* The model processed last is the one before the loop position, unless the
\* iteration raised.
LastIsProcessed ==
    /\ pcSweep \in {"fit", "done"}
    /\ idx >= 2
    /\ idx - 1 <= Len(models)
    /\ models[idx - 1].name = last.name
    /\ models[idx - 1].n_clusters = last.n_clusters

\* C5: every model of candidate count 1 is fitted and printed, yields one
\* distinct label, skips the second fit, the score and both score prints,
\* and does not raise: the loop goes on after it.
SingleClusterSkipsScoring ==
    /\ (last # NoModel /\ last.n_clusters = 1) =>
          /\ last.fitted
          /\ last.params
          /\ last.distinct = 1
          /\ ~last.refit
          /\ ~last.scored
          /\ ~last.scoreLine
          /\ ~last.crosstab
          /\ LastIsProcessed
    /\ \A k \in 1..Len(models) :
          (models[k].n_clusters = 1 /\ pcSweep \in {"fit", "done"} /\ k < idx) =>
              /\ k <= Len(printedModels)
              /\ printedModels[k] = models[k]

\* The MiniBatch variant of count 1 has just been skipped and the loop has a
\* further count to go on with.
SingleClusterWitness ==
    /\ last # NoModel
    /\ last.n_clusters = 1
    /\ last.name = "MiniBatch"
    /\ pcSweep = "fit"
    /\ idx <= Len(models)
    /\ Len(printedModels) = 2
    /\ silhouettes = <<>>

\* C6: for the model of every iteration, the score line and the contingency
\* table are printed together, and exactly when the fit gave more than one
\* distinct label and the score computed is above zero; every fitted model's
\* parameters are printed, whatever its score.
ScorePrintedIffPositive ==
    /\ last # NoModel =>
          /\ last.scoreLine = last.crosstab
          /\ last.scoreLine =
                (last.fitted /\ last.distinct > 1 /\ last.scored
                    /\ last.silhouette > 0)
          /\ last.fitted = last.params
    /\ pcSweep \in {"fit", "done"} => Len(printedModels) = idx - 1

\* One iteration printed a score, and an earlier one computed a score that
\* was not printed.
ScorePrintedWitness ==
    /\ last # NoModel
    /\ last.scoreLine
    /\ last.silhouette = 1
    /\ \E k \in 1..Len(silhouettes) : silhouettes[k] <= 0

\* The candidate counts of range(start, stop, step), step # 0, as a set.
RangeCounts ==
    IF step > 0
    THEN {c \in start..(stop - 1) : (c - start) % step = 0}
    ELSE {c \in (stop + 1)..start : (start - c) % (0 - step) = 0}

\* What C9 says besides the order of the counts: two variants per candidate
\* count, KMeans before MiniBatch; nothing fitted or printed while the list
\* is built; the models fitted and printed in list order; on return, two
\* printed models per candidate count; the defaults cover 2..10.
SweepShape ==
    /\ (pcSweep \in {"convert", "build"}) =>
          names = <<>> /\ printedModels = <<>> /\ last = NoModel
    /\ (pcSweep \in {"fit", "done"}) =>
          /\ Len(models) = 2 * Cardinality(RangeCounts)
          /\ {models[k].n_clusters : k \in 1..Len(models)} = RangeCounts
          /\ \A k \in 1..Len(models) :
                /\ models[k].name = (IF k % 2 = 1 THEN "KMeans" ELSE "MiniBatch")
                /\ k % 2 = 1 => models[k + 1].n_clusters = models[k].n_clusters
          /\ Len(printedModels) <= Len(models)
          /\ \A k \in 1..Len(printedModels) : printedModels[k] = models[k]
    /\ pcSweep = "done" => Len(printedModels) = 2 * Cardinality(RangeCounts)
    /\ (pcSweep \in {"fit", "done"} /\ RangeCounts = {}) =>
          models = <<>> /\ printedModels = <<>>
    /\ (pcSweep \in {"fit", "done"} /\ start = DefaultStart /\ stop = DefaultStop
           /\ step = DefaultStep) => RangeCounts = 2..10

\* C9, as amended: the shape above, with the counts in the order range()
\* yields them: ascending for a positive step, descending for a negative one.
SweepInRangeOrder ==
    /\ SweepShape
    /\ (pcSweep \in {"fit", "done"}) =>
          \A j, k \in 1..Len(models) :
              (j < k /\ models[j].n_clusters # models[k].n_clusters) =>
                  IF step > 0 THEN models[j].n_clusters < models[k].n_clusters
                  ELSE models[j].n_clusters > models[k].n_clusters

\* C9, as claimed: the shape above, with the counts in ascending order.
SweepInAscendingOrder ==
    /\ SweepShape
    /\ (pcSweep \in {"fit", "done"}) =>
          \A j, k \in 1..Len(models) :
              j < k => models[j].n_clusters <= models[k].n_clusters

\* A sweep over two counts with a negative step has returned: four models
\* printed, the larger count first.
SweepInRangeOrderWitness ==
    /\ pcSweep = "done"
    /\ step < 0
    /\ Len(printedModels) = 4
    /\ printedModels[1].n_clusters > printedModels[3].n_clusters

\* ---------------------------------------------------------- fit_and_predict

\* C4: with either pair of lengths different, the call makes no library call
\* and no print and never gets past its assertions; whatever has been done,
\* the fit included, was done after both checks passed.
ChecksPrecedeFit ==
    /\ (lens.X_train # lens.y_train \/ lens.X_eval # lens.y_eval) =>
          /\ events = <<>>
          /\ pcGrid \in {"assert_train", "assert_eval", "raised"}
    /\ (events # <<>> \/ pcGrid \in {"setup", "fit", "scores", "predict", "report", "done"}) =>
          /\ lens.X_train = lens.y_train
          /\ lens.X_eval = lens.y_eval
    /\ "fit" \in Range(events) =>
          /\ lens.X_train = lens.y_train
          /\ lens.X_eval = lens.y_eval
          /\ events[4] = "fit"

\* The call raised at its second assertion, before anything else happened.
ChecksPrecedeFitWitness ==
    /\ pcGrid = "raised"
    /\ lens.X_train = lens.y_train
    /\ lens.X_eval # lens.y_eval
    /\ events = <<>>

\* -------------------------------------------------------------- LsaPlotting

\* C3: an object exists exactly when the constructor passed both length
\* checks; with either pair different the constructor raises, the caller
\* holds no object and no figure is ever rendered; every figure comes from
\* pairs of equal length.
PlotterOnlyForMatchedLengths ==
    /\ plotter.made =>
          /\ plotter.X_train_lsa.n = Len(plotter.y_train)
          /\ plotter.X_eval_lsa.n = Len(plotter.y_eval)
    /\ (args.X_train_lsa.n # Len(args.y_train)
          \/ args.X_eval_lsa.n # Len(args.y_eval)) =>
          /\ ~plotter.made
          /\ pcPlot \in {"new", "raised"}
          /\ figure = NoFigure
    /\ plotter.made = (pcPlot = "ready")
    /\ figure # NoFigure =>
          /\ plotter.made
          /\ figure.train[1] = figure.train[2]
          /\ figure.eval[1] = figure.eval[2]

\* The constructor raised at its second assertion.
PlotterRaisedWitness ==
    /\ pcPlot = "raised"
    /\ args.X_train_lsa.n = Len(args.y_train)
    /\ args.X_eval_lsa.n # Len(args.y_eval)
    /\ ~plotter.made

\* C8: the palette mapping of every compare_plot_2d and compare_plot_3d call
\* has exactly the distinct training labels as its keys.
PaletteCoversTrainingLabels ==
    (figure.op \in {"compare_plot_2d", "compare_plot_3d"}) =>
        DOMAIN figure.pairs = Range(plotter.y_train)

====
